---- MODULE Spec2Model ----
(***************************************************************************)
(* Inventory management backend: SaleServices and ProductServices over a   *)
(* document store (products, sales, purchases, sellers).                   *)
(*                                                                         *)
(* Every service call is run by a process; one action is one await of the  *)
(* handler, so calls of different processes interleave between awaits.     *)
(* Writes issued with a session are buffered in the transaction and applied*)
(* to the collections by commitTransaction; a document updated inside an   *)
(* open transaction is write-locked until that transaction ends.           *)
(***************************************************************************)
EXTENDS Integers, FiniteSets, Sequences, TLC

\* ---------------------------------------------------------------- bounds
MaxCalls       == 3   \* service calls started in one behaviour
MaxProducts    == 1   \* product ids that can be issued
MaxReportSales == 2   \* sales in the collection a reporting query runs on

Procs      == {1, 2}                 \* concurrent request handlers
Users      == {"u1", "u2"}
Sellers    == {"s1"}                 \* the seller collection (no writer in these services)
SellerRefs == {"s1", "s9"}           \* payload.seller; "s9" is no seller's id
ProductIds == 1..MaxProducts
Quantities == {1, 2}                \* quantity / stock of a payload
Prices     == {3}                    \* price / productPrice of a payload

NULL    == [null |-> TRUE]
Missing == [missing |-> TRUE]       \* a field the document does not have
NoReq   == [op |-> "none"]
NoTxn   == [inc |-> {}, products |-> {}, sales |-> {}, purchases |-> {}]
NoError == ""
NoReport == [query |-> "none"]
WriteError == "write failed"         \* message of an error thrown by the driver

VARIABLES
  products,        \* Product collection: set of [_id, user, seller, stock, price]
  sales,           \* Sale collection: set of [_id, user, product, quantity, totalPrice, date]
  purchases,       \* Purchase collection: set of [_id, user, seller, product, quantity, unitPrice, totalPrice]
  replicaSet,      \* readyState === 1 && client.s.options.replicaSet
  pc,              \* position of each process in its call
  req,             \* the call's arguments (payload, userId)
  local,           \* the call's local `product`
  session,         \* the call's ClientSession
  txn,             \* writes buffered in the session's transaction
  message,         \* message of the error the call threw
  nextId,          \* next _id of each collection
  calls,           \* number of calls started
  stockIn,         \* history: per product, stock at creation + successful addToStock amounts
  report           \* last result of a reporting query

dbvars == <<products, sales, purchases>>
vars == <<products, sales, purchases, replicaSet, pc, req, local, session, txn,
          message, nextId, calls, stockIn, report>>

\* ------------------------------------------------------------------ dates
\* A Date is a day of the proleptic Gregorian calendar in UTC, counted from
\* 1970-01-01; the date operators of the store are computed from the count.
Date(n) == [days |-> n]

\* 2024-12-29 (Sun, ISO week 52 of 2024), 2024-12-30 (Mon, ISO week 1 of 2025),
\* 2025-01-01 (Wed, ISO week 1 of 2025)
Dates == {Date(20086), Date(20087), Date(20089)}

Civil(n) ==
  LET z   == n + 719468
      era == z \div 146097
      doe == z - era * 146097
      yoe == (doe - doe \div 1460 + doe \div 36524 - doe \div 146096) \div 365
      doy == doe - (365 * yoe + yoe \div 4 - yoe \div 100)
      mp  == (5 * doy + 2) \div 153
      m   == IF mp < 10 THEN mp + 3 ELSE mp - 9
  IN [year  |-> yoe + era * 400 + (IF m <= 2 THEN 1 ELSE 0),
      month |-> m,
      day   |-> doy - (153 * mp + 2) \div 5 + 1]

DaysFromCivil(y, m, d) ==
  LET yy  == IF m <= 2 THEN y - 1 ELSE y
      era == yy \div 400
      yoe == yy - era * 400
      doy == (153 * ((m + 9) % 12) + 2) \div 5 + d - 1
      doe == yoe * 365 + yoe \div 4 - yoe \div 100 + doy
  IN era * 146097 + doe - 719468

\* the Thursday of the ISO week (Monday to Sunday) the day lies in
IsoThursday(n) == n - ((n + 3) % 7) + 3

\* $year, $month, $dayOfMonth, $isoWeek, $isoWeekYear
DatePart(operator, date) ==
  CASE operator = "$year"        -> Civil(date.days).year
    [] operator = "$month"       -> Civil(date.days).month
    [] operator = "$dayOfMonth"  -> Civil(date.days).day
    [] operator = "$isoWeekYear" -> Civil(IsoThursday(date.days)).year
    [] operator = "$isoWeek"     ->
         LET th == IsoThursday(date.days)
         IN (th - DaysFromCivil(Civil(th).year, 1, 1)) \div 7 + 1

\* ------------------------------------------------------- store primitives
Exists(coll, id) == \E d \in coll : d._id = id

FindById(coll, id) == IF Exists(coll, id) THEN CHOOSE d \in coll : d._id = id ELSE NULL

\* { $inc: { stock: delta } } on the document with this _id, if any
IncStock(coll, id, delta) ==
  { IF d._id = id THEN [d EXCEPT !.stock = d.stock + delta] ELSE d : d \in coll }

RECURSIVE IncAll(_, _)
IncAll(coll, incs) ==
  IF incs = {} THEN coll
  ELSE LET i == CHOOSE x \in incs : TRUE
       IN IncAll(IncStock(coll, i.id, i.delta), incs \ {i})

\* the document is written by a transaction of another process that is still open
LockedByOther(p, id) ==
  \E q \in Procs \ {p} : session[q] = "inTransaction" /\ \E i \in txn[q].inc : i.id = id

Init ==
  /\ products = {}
  /\ sales = {}
  /\ purchases = {}
  /\ replicaSet \in BOOLEAN
  /\ pc = [p \in Procs |-> "idle"]
  /\ req = [p \in Procs |-> NoReq]
  /\ local = [p \in Procs |-> NULL]
  /\ session = [p \in Procs |-> "none"]
  /\ txn = [p \in Procs |-> NoTxn]
  /\ message = [p \in Procs |-> NoError]
  /\ nextId = [product |-> 1, sale |-> 1, purchase |-> 1]
  /\ calls = 0
  /\ stockIn = [i \in ProductIds |-> 0]
  /\ report = NoReport

\* ------------------------------------------------ shared pieces of a call
\* a process runs no call: the caller has received the result or the error
Free(p) == pc[p] \in {"idle", "done", "error"}

\* an incoming request is served by a free process
CanBegin(p) == Free(p) /\ calls < MaxCalls

\* entry of a handler: the arguments r, the session the handler opens first
Begin(p, r, first, sess) ==
  /\ nextId' = IF r.op = "product.create" THEN [nextId EXCEPT !.product = @ + 1] ELSE nextId
  /\ req' = [req EXCEPT ![p] = r]
  /\ pc' = [pc EXCEPT ![p] = first]
  /\ session' = [session EXCEPT ![p] = sess]
  /\ message' = [message EXCEPT ![p] = NoError]
  /\ calls' = calls + 1
  /\ UNCHANGED <<products, sales, purchases, replicaSet, local, txn, stockIn, report>>

\* the handler goes on to its next await
Goto(p, next) ==
  /\ pc' = [pc EXCEPT ![p] = next]
  /\ UNCHANGED req

\* the handler returns or throws: its arguments and locals are gone
Leave(p, outcome) ==
  /\ pc' = [pc EXCEPT ![p] = outcome]
  /\ req' = [req EXCEPT ![p] = NoReq]
  /\ local' = [local EXCEPT ![p] = NULL]

\* catch { if (session) await session.abortTransaction(); throw new CustomError(400, msg) }
\* finally { if (session) await session.endSession() }
Throw(p, msg) ==
  /\ Leave(p, "error")
  /\ message' = [message EXCEPT ![p] = msg]
  /\ session' = [session EXCEPT ![p] = IF session[p] = "none" THEN "none" ELSE "abortedEnded"]
  /\ txn' = [txn EXCEPT ![p] = NoTxn]

\* if (session) await session.commitTransaction(); return ...; finally endSession
CommitAndReturn(p, t) ==
  /\ products' = IncAll(products, t.inc) \cup t.products
  /\ sales' = sales \cup t.sales
  /\ purchases' = purchases \cup t.purchases
  /\ Leave(p, "done")
  /\ session' = [session EXCEPT ![p] = "committedEnded"]
  /\ txn' = [txn EXCEPT ![p] = NoTxn]
  /\ message' = message

\* ------------------------------------------------- SaleServices.create
\* date of a sale payload: no branch of create depends on it
SaleDates == {Date(20089)}

SaleCreateCall(p) ==
  /\ CanBegin(p)
  /\ \E u \in Users, id \in ProductIds, q \in Quantities, pr \in Prices, dt \in SaleDates :
       Begin(p, [op |-> "sale.create", user |-> u, product |-> id, quantity |-> q,
                 productPrice |-> pr, date |-> dt, totalPrice |-> pr * q],
             "sale.findById", "none")

NotAvailableMessage(q) == ToString(q) \o " products are not available in stock!"

\* SaleFindById without the comparison of quantity and stock
SaleFindById_NoStockCheck(p) ==
  /\ pc[p] = "sale.findById"
  /\ LET product == FindById(products, req[p].product) IN
       IF product = NULL THEN
         Throw(p, "Product not found")
       ELSE
         /\ local' = [local EXCEPT ![p] = product]
         /\ session' = [session EXCEPT ![p] = IF replicaSet THEN "inTransaction" ELSE "none"]
         /\ Goto(p, "sale.decrement")
         /\ UNCHANGED <<txn, message>>
  /\ UNCHANGED <<products, sales, purchases, replicaSet, nextId, calls, stockIn, report>>

\* lines 23-38: read the product, reject, else open the session and transaction
SaleFindById(p) ==
  /\ pc[p] = "sale.findById"
  /\ LET product == FindById(products, req[p].product) IN
       IF product = NULL THEN
         Throw(p, "Product not found")
       ELSE IF req[p].quantity > product.stock THEN
         Throw(p, NotAvailableMessage(req[p].quantity))
       ELSE
         /\ local' = [local EXCEPT ![p] = product]
         /\ session' = [session EXCEPT ![p] = IF replicaSet THEN "inTransaction" ELSE "none"]
         /\ Goto(p, "sale.decrement")
         /\ UNCHANGED <<txn, message>>
  /\ UNCHANGED <<products, sales, purchases, replicaSet, nextId, calls, stockIn, report>>

\* SaleDecrement with the update issued without { session }
SaleDecrement_Unsessioned(p) ==
  /\ pc[p] = "sale.decrement"
  /\ \/ /\ ~LockedByOther(p, local[p]._id)
        /\ products' = IncStock(products, local[p]._id, 0 - req[p].quantity)
        /\ Goto(p, "sale.insert")
        /\ UNCHANGED <<txn, session, message, local>>
     \/ /\ Throw(p, "Sale create failed: " \o WriteError)
        /\ UNCHANGED products
  /\ UNCHANGED <<sales, purchases, replicaSet, nextId, calls, stockIn, report>>

\* line 41: Product.findByIdAndUpdate(product._id, { $inc: { stock: -quantity } }, { session })
SaleDecrement(p) ==
  /\ pc[p] = "sale.decrement"
  /\ LET id == local[p]._id
         inc == [id |-> id, delta |-> 0 - req[p].quantity] IN
       \/ /\ session[p] = "inTransaction"
          /\ ~LockedByOther(p, id)
          /\ txn' = [txn EXCEPT ![p].inc = IF Exists(products, id) THEN {inc} ELSE {}]
          /\ Goto(p, "sale.insert")
          /\ UNCHANGED <<products, session, message, local>>
       \/ /\ session[p] = "none"
          /\ ~LockedByOther(p, id)
          /\ products' = IncStock(products, id, inc.delta)
          /\ Goto(p, "sale.insert")
          /\ UNCHANGED <<txn, session, message, local>>
       \/ /\ Throw(p, "Sale create failed: " \o WriteError)
          /\ UNCHANGED products
  /\ UNCHANGED <<sales, purchases, replicaSet, nextId, calls, stockIn, report>>

SaleDoc(p) ==
  [_id |-> nextId.sale, user |-> req[p].user, product |-> req[p].product,
   quantity |-> req[p].quantity, totalPrice |-> req[p].totalPrice, date |-> req[p].date]

\* lines 44-51: this.model.create([payload], ...), commit, return.
\* create of a one-element array resolves to one document or throws, so the
\* 'Failed to create sale' branch cannot be taken.
SaleInsert(p) ==
  /\ pc[p] = "sale.insert"
  /\ \/ /\ session[p] = "inTransaction"
        /\ CommitAndReturn(p, [txn[p] EXCEPT !.sales = {SaleDoc(p)}])
        /\ nextId' = [nextId EXCEPT !.sale = @ + 1]
     \/ /\ session[p] = "none"
        /\ sales' = sales \cup {SaleDoc(p)}
        /\ nextId' = [nextId EXCEPT !.sale = @ + 1]
        /\ Leave(p, "done")
        /\ UNCHANGED <<products, purchases, session, txn, message>>
     \/ /\ Throw(p, "Sale create failed: " \o WriteError)
        /\ UNCHANGED <<products, sales, purchases, nextId>>
  /\ UNCHANGED <<replicaSet, calls, stockIn, report>>

\* ------------------------------------------------ ProductServices.create
\* lines 280-296: payload clean-up (the payloads drawn here have no falsy field),
\* payload.user = userId, session and transaction when the deployment has them
ProductCreateCall(p) ==
  /\ CanBegin(p) /\ nextId.product <= MaxProducts
  /\ \E u \in Users, sl \in SellerRefs, st \in Quantities, pr \in Prices :
       Begin(p, [op |-> "product.create", _id |-> nextId.product, user |-> u, seller |-> sl,
                 stock |-> st, price |-> pr],
             "product.findSeller", IF replicaSet THEN "inTransaction" ELSE "none")

\* ProductFindSeller without the check of the seller
ProductFindSeller_Unchecked(p) ==
  /\ pc[p] = "product.findSeller"
  /\ Goto(p, "product.insert")
  /\ UNCHANGED <<session, txn, message, local>>
  /\ UNCHANGED <<products, sales, purchases, replicaSet, nextId, calls, stockIn, report>>

\* lines 299-302: const seller = await Seller.findById(payload.seller)
ProductFindSeller(p) ==
  /\ pc[p] = "product.findSeller"
  /\ IF req[p].seller \notin Sellers
     THEN Throw(p, "Product create failed: Seller not found")
     ELSE /\ Goto(p, "product.insert")
          /\ UNCHANGED <<session, txn, message, local>>
  /\ UNCHANGED <<products, sales, purchases, replicaSet, nextId, calls, stockIn, report>>

ProductDoc(p) ==
  [_id |-> req[p]._id, user |-> req[p].user, seller |-> req[p].seller,
   stock |-> req[p].stock, price |-> req[p].price]

\* line 305: this.model.create([payload], session ? { session } : {})
ProductInsert(p) ==
  /\ pc[p] = "product.insert"
  /\ \/ /\ session[p] = "inTransaction"
        /\ txn' = [txn EXCEPT ![p].products = {ProductDoc(p)}]
        /\ local' = [local EXCEPT ![p] = ProductDoc(p)]
        /\ Goto(p, "product.purchase")
        /\ UNCHANGED <<products, session, message, stockIn>>
     \/ /\ session[p] = "none"
        /\ products' = products \cup {ProductDoc(p)}
        /\ stockIn' = [stockIn EXCEPT ![req[p]._id] = req[p].stock]
        /\ local' = [local EXCEPT ![p] = ProductDoc(p)]
        /\ Goto(p, "product.purchase")
        /\ UNCHANGED <<session, txn, message>>
     \/ /\ Throw(p, "Product create failed: " \o WriteError)
        /\ UNCHANGED <<products, stockIn>>
  /\ UNCHANGED <<sales, purchases, replicaSet, nextId, calls, report>>

\* lines 311-325: the purchase record of a newly created product
CreatePurchaseDoc(p, product) ==
  [_id |-> nextId.purchase, user |-> req[p].user, seller |-> product.seller,
   product |-> product._id, quantity |-> product.stock, unitPrice |-> product.price,
   totalPrice |-> product.stock * product.price]

\* lines 311-328: Purchase.create([...], ...), commit, return product
ProductPurchase(p) ==
  /\ pc[p] = "product.purchase"
  /\ \/ /\ session[p] = "inTransaction"
        /\ CommitAndReturn(p, [txn[p] EXCEPT !.purchases = {CreatePurchaseDoc(p, local[p])}])
        /\ stockIn' = [stockIn EXCEPT ![local[p]._id] = local[p].stock]
        /\ nextId' = [nextId EXCEPT !.purchase = @ + 1]
     \/ /\ session[p] = "none"
        /\ purchases' = purchases \cup {CreatePurchaseDoc(p, local[p])}
        /\ nextId' = [nextId EXCEPT !.purchase = @ + 1]
        /\ Leave(p, "done")
        /\ UNCHANGED <<products, sales, session, txn, message, stockIn>>
     \/ /\ Throw(p, "Product create failed: " \o WriteError)
        /\ UNCHANGED <<products, sales, purchases, nextId, stockIn>>
  /\ UNCHANGED <<replicaSet, calls, report>>

\* -------------------------------------------- ProductServices.addToStock
\* lines 413-417: the session and the transaction are opened unconditionally
AddToStockCall(p) ==
  /\ CanBegin(p)
  /\ \E u \in Users, id \in ProductIds, n \in Quantities :
       Begin(p, [op |-> "product.addToStock", user |-> u, id |-> id, stock |-> n],
             "addToStock.update", "inTransaction")

\* lines 419-420: Seller.findById, then findByIdAndUpdate(id, { $inc: { stock } }, { session }),
\* which resolves to the document as it was before the update (or null).
\* A deployment without a replica set rejects the operation of a transaction.
AddToStockUpdate(p) ==
  /\ pc[p] = "addToStock.update"
  /\ \/ /\ replicaSet
        /\ ~LockedByOther(p, req[p].id)
        /\ local' = [local EXCEPT ![p] = FindById(products, req[p].id)]
        /\ txn' = [txn EXCEPT ![p].inc = IF Exists(products, req[p].id)
                                         THEN {[id |-> req[p].id, delta |-> req[p].stock]}
                                         ELSE {}]
        /\ Goto(p, "addToStock.purchase")
        /\ UNCHANGED <<session, message>>
     \/ Throw(p, "Product create failed")
  /\ UNCHANGED <<products, sales, purchases, replicaSet, nextId, calls, stockIn, report>>

\* lines 422-433: the purchase record of a stock intake
IntakePurchaseDoc(p, product) ==
  [_id |-> nextId.purchase, user |-> req[p].user, seller |-> product.seller,
   product |-> product._id, quantity |-> product.stock, unitPrice |-> product.price,
   totalPrice |-> product.stock * product.price]

\* lines 422-440: Purchase.create (product.seller of null throws), commit, return product
AddToStockPurchase(p) ==
  /\ pc[p] = "addToStock.purchase"
  /\ \/ /\ local[p] # NULL
        /\ CommitAndReturn(p, [txn[p] EXCEPT !.purchases = {IntakePurchaseDoc(p, local[p])}])
        /\ stockIn' = [stockIn EXCEPT ![req[p].id] = @ + req[p].stock]
        /\ nextId' = [nextId EXCEPT !.purchase = @ + 1]
     \/ /\ Throw(p, "Product create failed")
        /\ UNCHANGED <<products, sales, purchases, nextId, stockIn>>
  /\ UNCHANGED <<replicaSet, calls, report>>

\* -------------------------------------------- ProductServices.bulkDelete
BulkDeleteCall(p) ==
  /\ CanBegin(p)
  /\ \E ids \in SUBSET ProductIds \ {{}} :
       Begin(p, [op |-> "product.bulkDelete", ids |-> ids], "bulkDelete.deleteMany", "none")

\* line 407: this.model.deleteMany({ _id: { $in: data } })
BulkDelete(p) ==
  /\ pc[p] = "bulkDelete.deleteMany"
  /\ \A id \in req[p].ids : ~LockedByOther(p, id)
  /\ products' = { d \in products : d._id \notin req[p].ids }
  /\ Leave(p, "done")
  /\ UNCHANGED <<sales, purchases, replicaSet, session, txn, message,
                 nextId, calls, stockIn, report>>

Next ==
  \E p \in Procs :
    \/ SaleCreateCall(p)
    \/ SaleFindById(p)
    \/ SaleDecrement(p)
    \/ SaleInsert(p)
    \/ ProductCreateCall(p)
    \/ ProductFindSeller(p)
    \/ ProductInsert(p)
    \/ ProductPurchase(p)
    \/ AddToStockCall(p)
    \/ AddToStockUpdate(p)
    \/ AddToStockPurchase(p)
    \/ BulkDeleteCall(p)
    \/ BulkDelete(p)

Spec == Init /\ [][Next]_vars

\* ------------------------------------------ SaleServices reporting queries
\* the documents of a collection in natural (insertion) order
RECURSIVE NaturalOrder(_)
NaturalOrder(coll) ==
  IF coll = {} THEN <<>>
  ELSE LET d == CHOOSE x \in coll : \A y \in coll : x._id <= y._id
       IN <<d>> \o NaturalOrder(coll \ {d})

\* MatchStage without the condition on user
MatchStage_AnyUser(docs, userId) ==
  SelectSeq(docs, LAMBDA d : d.date # Missing /\ d.date # NULL)

\* { $match: { user: ObjectId(userId), date: { $exists: true, $ne: null } } }
MatchStage(docs, userId) ==
  SelectSeq(docs, LAMBDA d : d.user = userId /\ d.date # Missing /\ d.date # NULL)

\* { $group: { _id: {...}, totalQuantity: { $sum: '$quantity' }, totalRevenue: { $sum: '$totalPrice' } } }
GroupKey(groupId, doc) == [f \in DOMAIN groupId |-> DatePart(groupId[f], doc.date)]

Accumulate(groups, key, doc) ==
  IF \E i \in DOMAIN groups : groups[i]._id = key
  THEN [i \in DOMAIN groups |->
          IF groups[i]._id = key
          THEN [groups[i] EXCEPT !.totalQuantity = @ + doc.quantity,
                                 !.totalRevenue = @ + doc.totalPrice]
          ELSE groups[i]]
  ELSE Append(groups, [_id |-> key, totalQuantity |-> doc.quantity,
                       totalRevenue |-> doc.totalPrice])

RECURSIVE GroupFrom(_, _, _)
GroupFrom(groups, docs, groupId) ==
  IF docs = <<>> THEN groups
  ELSE GroupFrom(Accumulate(groups, GroupKey(groupId, Head(docs)), Head(docs)),
                 Tail(docs), groupId)

GroupStage(docs, groupId) == GroupFrom(<<>>, docs, groupId)

\* { $sort: { '_id.<f1>': 1, '_id.<f2>': 1, ... } }: ascending, first field first
RECURSIVE KeyLess(_, _, _)
KeyLess(a, b, by) ==
  IF by = <<>> THEN FALSE
  ELSE \/ a[Head(by)] < b[Head(by)]
       \/ a[Head(by)] = b[Head(by)] /\ KeyLess(a, b, Tail(by))

RECURSIVE InsertSorted(_, _, _)
InsertSorted(rows, r, by) ==
  IF rows = <<>> THEN <<r>>
  ELSE IF KeyLess(r._id, Head(rows)._id, by)
       THEN <<r>> \o rows
       ELSE <<Head(rows)>> \o InsertSorted(Tail(rows), r, by)

RECURSIVE SortStage(_, _)
SortStage(rows, by) ==
  IF rows = <<>> THEN <<>>
  ELSE InsertSorted(SortStage(Tail(rows), by), Head(rows), by)

\* { $project: { <f>: '$_id.<f>', ..., totalQuantity: 1, totalRevenue: 1, _id: 0 } }
ProjectStage(rows) ==
  [i \in DOMAIN rows |->
     [f \in DOMAIN rows[i]._id \cup {"totalQuantity", "totalRevenue"} |->
        IF f \in {"totalQuantity", "totalRevenue"} THEN rows[i][f] ELSE rows[i]._id[f]]]

Aggregate(userId, groupId, by) ==
  ProjectStage(SortStage(GroupStage(MatchStage(NaturalOrder(sales), userId), groupId), by))

\* the $group _id and the $sort keys of each query
GroupIdOf(query) ==
  CASE query = "readAllWeeks"  -> [week |-> "$isoWeek", year |-> "$isoWeekYear"]
    [] query = "readAllYearly" -> [year |-> "$year"]
    [] query = "readAllDaily"  -> [day |-> "$dayOfMonth", month |-> "$month", year |-> "$year"]
    [] query = "readAllMonths" -> [month |-> "$month", year |-> "$year"]

SortOf(query) ==
  CASE query = "readAllWeeks"  -> <<"year", "week">>
    [] query = "readAllYearly" -> <<"year">>
    [] query = "readAllDaily"  -> <<"year", "month", "day">>
    [] query = "readAllMonths" -> <<"year", "month">>

\* the result of a reporting query (one query is evaluated per behaviour)
Query(query, userId) ==
  /\ report' = [query |-> query, user |-> userId,
                rows |-> Aggregate(userId, GroupIdOf(query), SortOf(query))]
  /\ UNCHANGED <<products, sales, purchases, replicaSet, pc, req, local, session, txn,
                 message, nextId, calls, stockIn>>

ReadAllWeeks(userId) ==
  /\ report = NoReport
  /\ Query("readAllWeeks", userId)

ReadAllYearly(userId) ==
  /\ report = NoReport
  /\ Query("readAllYearly", userId)

ReadAllDaily(userId) ==
  /\ report = NoReport
  /\ Query("readAllDaily", userId)

ReadAllMonths(userId) ==
  /\ report = NoReport
  /\ Query("readAllMonths", userId)

\* the sale collection: up to MaxReportSales sales, as SaleServices.create persists
\* them (user = userId, totalPrice = productPrice * quantity, the payload's date)
InitReport ==
  /\ \E n \in 0..MaxReportSales :
       \E u \in [1..n -> Users], q \in [1..n -> Quantities], pr \in [1..n -> Prices],
          dt \in [1..n -> Dates \cup {NULL, Missing}] :
         sales = { [_id |-> i, user |-> u[i], product |-> 1, quantity |-> q[i],
                    totalPrice |-> pr[i] * q[i], date |-> dt[i]] : i \in 1..n }
  /\ products = {}
  /\ purchases = {}
  /\ replicaSet \in {FALSE}
  /\ pc = [p \in Procs |-> "idle"]
  /\ req = [p \in Procs |-> NoReq]
  /\ local = [p \in Procs |-> NULL]
  /\ session = [p \in Procs |-> "none"]
  /\ txn = [p \in Procs |-> NoTxn]
  /\ message = [p \in Procs |-> NoError]
  /\ nextId = [product |-> 2, sale |-> Cardinality(sales) + 1, purchase |-> 2]
  /\ calls = 0
  /\ stockIn = [i \in ProductIds |-> 0]
  /\ report = NoReport

NextReport ==
  \E userId \in Users :
    \/ ReadAllWeeks(userId)
    \/ ReadAllYearly(userId)
    \/ ReadAllDaily(userId)
    \/ ReadAllMonths(userId)

SpecReport == InitReport /\ [][NextReport]_vars
\* ====================================================== properties (Spec)
RECURSIVE SumQuantity(_)
SumQuantity(docs) ==
  IF docs = {} THEN 0
  ELSE LET d == CHOOSE x \in docs : TRUE IN d.quantity + SumQuantity(docs \ {d})

\* the process p takes this step
Steps(p) == pc'[p] # pc[p]

\* C1: every persisted product has stock >= 0 in every reachable state.
C1_StockNeverNegative == \A d \in products : d.stock >= 0

\* C2: every persisted sale carries an owning user and references a product
\* that is present in the product collection.
C2_SaleReferencesExistingProduct ==
  \A s \in sales : s.user \in Users /\ Exists(products, s.product)

\* C3: a step of a call whose session has an open transaction changes the
\* collections only if it is the commit that ends the call successfully; a
\* failing step ends the call with an error, aborts the transaction, ends the
\* session and leaves products, sales and purchases as they were.
C3_NoPartialCommit ==
  [][\A p \in Procs :
       (Steps(p) /\ (session[p] = "inTransaction" \/ session'[p] = "inTransaction")) =>
          /\ pc'[p] # "done" => UNCHANGED dbvars
          /\ pc'[p] = "error" =>
               session'[p] = "abortedEnded" /\ txn'[p] = NoTxn /\ message'[p] # NoError
          /\ pc'[p] = "done" => session'[p] = "committedEnded"]_vars

\* a transactional sale has failed and another one has committed
C3_Witness ==
  /\ replicaSet
  /\ \E p \in Procs : /\ pc[p] = "error" /\ session[p] = "abortedEnded"
                      /\ message[p] = "Sale create failed: " \o WriteError
  /\ sales # {}

\* C4: when a ProductServices.create call ends (return or throw), the product
\* is persisted iff exactly one Purchase record for it is persisted, and that
\* record has quantity = stock, unitPrice = price, totalPrice = stock * price.
C4_ProductIffPurchase ==
  [][\A p \in Procs :
       (req[p].op = "product.create" /\ pc'[p] \in {"done", "error"}) =>
          LET recs == { x \in purchases' : x.product = req[p]._id } IN
            /\ Exists(products', req[p]._id) <=> Cardinality(recs) = 1
            /\ \A x \in recs : /\ x.quantity = req[p].stock
                               /\ x.unitPrice = req[p].price
                               /\ x.totalPrice = req[p].stock * req[p].price]_vars

\* C5: when addToStock(id, {stock: n}) returns, the product's stock has grown
\* by exactly n and exactly one new Purchase record exists for the product,
\* with quantity = n and totalPrice = n * price.
C5_IntakeRecorded ==
  [][\A p \in Procs :
       (req[p].op = "product.addToStock" /\ pc'[p] = "done") =>
          LET id  == req[p].id
              n   == req[p].stock
              new == { x \in purchases' \ purchases : x.product = id } IN
            /\ Exists(products, id) /\ Exists(products', id)
            /\ FindById(products', id).stock = FindById(products, id).stock + n
            /\ Cardinality(new) = 1
            /\ \A x \in new : /\ x.quantity = n
                              /\ x.totalPrice = n * FindById(products, id).price]_vars

\* C7: SaleServices.create on a product id that is not persisted throws
\* 'Product not found', and on a quantity above the current stock throws
\* '<quantity> products are not available in stock!'; in both cases no session
\* is started and no collection changes.
C7_RejectBeforeWrite ==
  [][\A p \in Procs :
       (pc[p] = "sale.findById" /\ Steps(p)) =>
          LET id == req[p].product
              q  == req[p].quantity
              rejected(msg) == /\ pc'[p] = "error" /\ message'[p] = msg
                               /\ session'[p] = "none" /\ txn'[p] = NoTxn
                               /\ UNCHANGED dbvars IN
            /\ ~Exists(products, id) => rejected("Product not found")
            /\ (Exists(products, id) /\ q > FindById(products, id).stock) =>
                 rejected(ToString(q) \o " products are not available in stock!")]_vars

\* both rejections have happened
C7_Witness ==
  \E p, q \in Procs :
    /\ message[p] = "Product not found" /\ pc[p] = "error"
    /\ message[q] = "2 products are not available in stock!" /\ pc[q] = "error"

\* C8: ProductServices.create with a payload.seller that is no seller's id
\* throws 'Product create failed: Seller not found', persists no product and
\* no purchase, and a started session ends with its transaction aborted.
C8_SellerNotFound ==
  [][\A p \in Procs :
       (req[p].op = "product.create" /\ req[p].seller \notin Sellers /\ Steps(p)) =>
          /\ pc'[p] = "error"
          /\ message'[p] = "Product create failed: Seller not found"
          /\ UNCHANGED dbvars
          /\ txn'[p] = NoTxn
          /\ session[p] # "none" => session'[p] = "abortedEnded"]_vars

\* a create with an unknown seller has thrown inside a transaction
C8_Witness ==
  \E p \in Procs : /\ pc[p] = "error" /\ session[p] = "abortedEnded"
                   /\ message[p] = "Product create failed: Seller not found"

\* C9: whenever no call is running, each persisted product's stock equals its
\* stock at creation plus the amounts of the successful addToStock calls minus
\* the quantities of the persisted sales that reference it.
C9_StockConservation ==
  (\A p \in Procs : Free(p)) =>
     \A d \in products :
        d.stock = stockIn[d._id] - SumQuantity({ s \in sales : s.product = d._id })

\* C10: a step of SaleServices.create or ProductServices.addToStock made for
\* user u leaves every product owned by another user as it was.
C10_PerUserIsolation ==
  [][\A p \in Procs :
       (Steps(p) /\ req[p].op \in {"sale.create", "product.addToStock"}) =>
          \A d \in products : d.user # req[p].user => d \in products']_vars
\* =============================================== properties (SpecReport)
RECURSIVE SumTotalPrice(_)
SumTotalPrice(docs) ==
  IF docs = {} THEN 0
  ELSE LET d == CHOOSE x \in docs : TRUE IN d.totalPrice + SumTotalPrice(docs \ {d})

\* C6: the result of readAllMonths / readAllWeeks / readAllDaily / readAllYearly
\* for userId has exactly one row per distinct period among that user's sales
\* with a present, non-null date; a row's totalQuantity and totalRevenue are the
\* sums over exactly the sales of its period; rows ascend by the period key
\* (year first); other users' sales and undated sales are in no row.
C6_Rollup ==
  report # NoReport =>
    LET g      == GroupIdOf(report.query)
        by     == SortOf(report.query)
        rows   == report.rows
        own    == { s \in sales : s.user = report.user /\ s.date \notin {NULL, Missing} }
        period(s) == [f \in DOMAIN g |-> DatePart(g[f], s.date)]
        key(r)    == [f \in DOMAIN g |-> r[f]]
    IN /\ { key(rows[i]) : i \in DOMAIN rows } = { period(s) : s \in own }
       /\ Len(rows) = Cardinality({ period(s) : s \in own })
       /\ \A i \in DOMAIN rows :
            LET of == { s \in own : period(s) = key(rows[i]) } IN
              /\ DOMAIN rows[i] = DOMAIN g \cup {"totalQuantity", "totalRevenue"}
              /\ rows[i].totalQuantity = SumQuantity(of)
              /\ rows[i].totalRevenue = SumTotalPrice(of)
       /\ \A i, j \in DOMAIN rows :
            i < j => \E k \in DOMAIN by :
                        /\ \A h \in 1..(k - 1) : rows[i][by[h]] = rows[j][by[h]]
                        /\ rows[i][by[k]] < rows[j][by[k]]

\* a monthly report of two periods, the first in the earlier year but the
\* later month
C6_Witness ==
  /\ report # NoReport /\ report.query = "readAllMonths"
  /\ Len(report.rows) = 2
  /\ report.rows[1].year < report.rows[2].year
  /\ report.rows[1].month > report.rows[2].month
====
